---------------------------- MODULE Spec2Model ----------------------------
(***************************************************************************)
(* A model of the Mandelbrot plotter in src/src/main.rs: the escape-time   *)
(* evaluator, the pixel-to-plane mapper, the pair parser and the render    *)
(* loop.                                                                   *)
(*                                                                         *)
(* Numbers.  An f64 is modelled by the exact rational it denotes, a pair   *)
(* <<n, d>> in lowest terms with d > 0.  The inputs are drawn from sets on *)
(* which every intermediate value is a short dyadic or small rational, so  *)
(* the comparisons the program makes come out as they do in IEEE double    *)
(* arithmetic; rounding is outside the model, and the only non-finite      *)
(* values in it are those a division by a zero dimension produces.  A      *)
(* usize is a natural number; the grids are small, so no product of        *)
(* dimensions comes near the width of a usize.                             *)
(*                                                                         *)
(* Options.  None is the empty sequence, Some(x) is <<x>>.                 *)
(***************************************************************************)
EXTENDS Integers, Sequences, FiniteSets

VARIABLES
    call,         \* the pending call of a pure function: a record of its arguments
    ret,          \* its result, <<>> while the call has not returned, else <<value>>
    pc,           \* where render is
    bounds,       \* render's bounds: <<width, height>>
    upper_left,   \* render's upper_left
    lower_right,  \* render's lower_right
    pixels,       \* render's buffer, 1-indexed: pixels[k + 1] is the byte at index k
    row,          \* render's outer loop variable
    column,       \* render's inner loop variable
    entry,        \* history: the buffer as render received it
    writes,       \* history: the writes to the buffer, in order
    mapped,       \* history: the arguments of each pixel_to_point call, in order
    owner,        \* parallel render: owner[r + 1] is the worker that owns row r
    cursor        \* parallel render: cursor[w] is worker w's <<row, column>>

pureVars   == <<call, ret>>
renderVars == <<pc, bounds, upper_left, lower_right, pixels, row, column,
                entry, writes, mapped>>
parVars    == <<owner, cursor>>
vars       == <<call, ret, pc, bounds, upper_left, lower_right, pixels, row,
                column, entry, writes, mapped, owner, cursor>>

None    == <<>>
Some(x) == <<x>>

-----------------------------------------------------------------------------
(* f64 arithmetic on the values the model draws                            *)

Abs(x) == IF x < 0 THEN -x ELSE x

RECURSIVE Gcd(_, _)
Gcd(a, b) == IF b = 0 THEN a ELSE Gcd(b, a % b)

\* The rational n/d in lowest terms with a positive denominator.  A zero
\* denominator gives the non-finite values a division by zero produces:
\* <<1, 0>> is +inf, <<-1, 0>> is -inf and <<0, 0>> is NaN.
Rat(n, d) ==
    IF d = 0 THEN <<IF n > 0 THEN 1 ELSE IF n < 0 THEN -1 ELSE 0, 0>>
    ELSE IF d = 1 THEN <<n, 1>>
    ELSE LET s == IF d < 0 THEN -1 ELSE 1
             g == Gcd(Abs(n), Abs(d))
         IN  <<(s * n) \div g, (s * d) \div g>>

\* `n as f64` for a usize n.
AsF64(n) == <<n, 1>>

FAdd(a, b) == IF a[2] = b[2] THEN Rat(a[1] + b[1], a[2])
              ELSE Rat(a[1] * b[2] + b[1] * a[2], a[2] * b[2])
FSub(a, b) == IF a[2] = b[2] THEN Rat(a[1] - b[1], a[2])
              ELSE Rat(a[1] * b[2] - b[1] * a[2], a[2] * b[2])
FMul(a, b) == Rat(a[1] * b[1], a[2] * b[2])
FDiv(a, b) == Rat(a[1] * b[2], a[2] * b[1])
FGt(a, b)  == a[1] * b[2] > b[1] * a[2]

\* num::Complex<f64>
Complex(re, im) == [re |-> re, im |-> im]
CMul(a, b) == Complex(FSub(FMul(a.re, b.re), FMul(a.im, b.im)),
                      FAdd(FMul(a.re, b.im), FMul(a.im, b.re)))
CAdd(a, b) == Complex(FAdd(a.re, b.re), FAdd(a.im, b.im))
norm_sqr(z) == FAdd(FMul(z.re, z.re), FMul(z.im, z.im))

-----------------------------------------------------------------------------
(* escape_time                                                             *)

\* The state of the loop is the current z and `out`: None while the loop runs,
\* Some(i) once it has returned Some(i).

\* A loop body that updates z before it tests the norm.
escape_step_update_first(st, c, i) ==
    IF st.out # None THEN st
    ELSE LET z2 == CAdd(CMul(st.z, st.z), c)
         IN  IF FGt(norm_sqr(z2), AsF64(4)) THEN [z |-> z2, out |-> Some(i)]
             ELSE [z |-> z2, out |-> None]

\* One pass of the loop body, at index i.
escape_step(st, c, i) ==
    IF st.out # None THEN st
    ELSE IF FGt(norm_sqr(st.z), AsF64(4)) THEN [z |-> st.z, out |-> Some(i)]
    ELSE [z |-> CAdd(CMul(st.z, st.z), c), out |-> None]

\* The passes of `for i in lo..hi`, in order, up to the pass that returns (the
\* range is halved so that the evaluation does not nest once per pass).
RECURSIVE escape_range(_, _, _, _)
escape_range(st, c, lo, hi) ==
    IF lo >= hi THEN st
    ELSE IF hi = lo + 1 THEN escape_step(st, c, lo)
    ELSE LET mid  == (lo + hi) \div 2
             half == escape_range(st, c, lo, mid)
         IN  IF half.out # None THEN half
             ELSE escape_range(half, c, mid, hi)

\* None, or Some(i).
escape_time(c, limit) ==
    escape_range([z |-> Complex(AsF64(0), AsF64(0)), out |-> None], c, 0, limit).out

-----------------------------------------------------------------------------
(* parse_pair, parse_complex                                               *)
(*                                                                         *)
(* A &str is a sequence of one-character strings.  T::from_str is the      *)
(* standard library's parser of the target type T, restricted to the       *)
(* characters the model draws: decimal digits, '+', '-' and '.'.  "usize"  *)
(* and "i32" are the integer parsers, "f64" the float parser; the strings  *)
(* are short, so no integer parse overflows.                               *)

Digits == <<"0", "1", "2", "3", "4", "5", "6", "7", "8", "9">>
IsDigit(ch) == \E k \in 1..10 : Digits[k] = ch
DigitValue(ch) == (CHOOSE k \in 1..10 : Digits[k] = ch) - 1
AllDigits(t) == \A k \in 1..Len(t) : IsDigit(t[k])

RECURSIVE Decimal(_)
Decimal(t) == IF t = <<>> THEN 0
              ELSE 10 * Decimal(SubSeq(t, 1, Len(t) - 1)) + DigitValue(t[Len(t)])

RECURSIVE Pow10(_)
Pow10(k) == IF k = 0 THEN 1 ELSE 10 * Pow10(k - 1)

\* str::find for a char: the index (from 0) of its first occurrence at or after k.
RECURSIVE find_from(_, _, _)
find_from(s, ch, k) ==
    IF k >= Len(s) THEN None
    ELSE IF s[k + 1] = ch THEN Some(k)
    ELSE find_from(s, ch, k + 1)

find(s, ch) == find_from(s, ch, 0)

\* <integer type>::from_str: an optional sign ('-' only for a signed type), then
\* one or more digits.
from_str_int(signed, s) ==
    IF s = <<>> THEN None
    ELSE LET sign   == s[1] = "+" \/ (signed /\ s[1] = "-")
             digits == IF sign THEN Tail(s) ELSE s
         IN  IF digits = <<>> \/ ~AllDigits(digits) THEN None
             ELSE IF s[1] = "-" THEN Some(-Decimal(digits))
             ELSE Some(Decimal(digits))

\* f64::from_str: an optional sign, then digits with at most one '.', at least
\* one digit in all.
from_str_f64(s) ==
    IF s = <<>> THEN None
    ELSE LET sign == s[1] = "+" \/ s[1] = "-"
             body == IF sign THEN Tail(s) ELSE s
             dot  == find(body, ".")
             int  == IF dot = None THEN body ELSE SubSeq(body, 1, dot[1])
             frac == IF dot = None THEN <<>>
                     ELSE SubSeq(body, dot[1] + 2, Len(body))
             mag  == Rat(Decimal(int \o frac), Pow10(Len(frac)))
         IN  IF int \o frac = <<>> \/ ~AllDigits(int \o frac) THEN None
             ELSE IF s[1] = "-" THEN Some(<<-mag[1], mag[2]>>)
             ELSE Some(mag)

from_str(T, s) ==
    CASE T = "usize" -> from_str_int(FALSE, s)
      [] T = "i32"   -> from_str_int(TRUE, s)
      [] T = "f64"   -> from_str_f64(s)

\* A parse_pair that splits at the last occurrence of the separator.
RECURSIVE rfind_from(_, _, _)
rfind_from(s, ch, k) ==
    IF k < 0 THEN None
    ELSE IF s[k + 1] = ch THEN Some(k)
    ELSE rfind_from(s, ch, k - 1)

parse_pair_last(T, s, separator) ==
    LET found == rfind_from(s, separator, Len(s) - 1)
    IN  IF found = None THEN None
        ELSE LET index == found[1]
                 l == from_str(T, SubSeq(s, 1, index))
                 r == from_str(T, SubSeq(s, index + 2, Len(s)))
             IN  IF l # None /\ r # None THEN Some(<<l[1], r[1]>>) ELSE None

parse_pair(T, s, separator) ==
    LET found == find(s, separator)
    IN  IF found = None THEN None
        ELSE LET index == found[1]
                 l == from_str(T, SubSeq(s, 1, index))
                 r == from_str(T, SubSeq(s, index + 2, Len(s)))
             IN  IF l # None /\ r # None THEN Some(<<l[1], r[1]>>) ELSE None

parse_complex(s) ==
    LET p == parse_pair("f64", s, ",")
    IN  IF p = None THEN None ELSE Some(Complex(p[1][1], p[1][2]))

-----------------------------------------------------------------------------
(* pixel_to_point                                                          *)

\* A mapper that adds on the imaginary axis.
pixel_to_point_added(bnds, pixel, ul, lr) ==
    LET width  == FSub(lr.re, ul.re)
        height == FSub(ul.im, lr.im)
    IN  Complex(FAdd(ul.re, FDiv(FMul(AsF64(pixel[1]), width), AsF64(bnds[1]))),
                FAdd(ul.im, FDiv(FMul(AsF64(pixel[2]), height), AsF64(bnds[2]))))

pixel_to_point(bnds, pixel, ul, lr) ==
    LET width  == FSub(lr.re, ul.re)
        height == FSub(ul.im, lr.im)
    IN  Complex(FAdd(ul.re, FDiv(FMul(AsF64(pixel[1]), width), AsF64(bnds[1]))),
                FSub(ul.im, FDiv(FMul(AsF64(pixel[2]), height), AsF64(bnds[2]))))

-----------------------------------------------------------------------------
(* render                                                                  *)

\* The iteration budget render gives escape_time.
Limit == 255

\* `i` is produced by the range `0..n`, with the bound included by mistake.
in_range_inclusive(i, n) == i <= n

\* `i` is produced by the range `0..n`.
in_range(i, n) == i < n

\* An assertion that accepts a buffer longer than the grid.
length_ok_at_least(buf, bnds) == Len(buf) >= bnds[1] * bnds[2]

\* assert!(pixels.len() == bounds.0 * bounds.1)
length_ok(buf, bnds) == Len(buf) = bnds[1] * bnds[2]

\* An index that strides by the height.
buffer_index_by_height(bnds, r, c) == r * bnds[2] + c

\* row * bounds.0 + column
buffer_index(bnds, r, c) == r * bnds[1] + c

\* An intensity that is the count itself.
pixel_value_count(et) == IF et = None THEN 0 ELSE et[1] % 256

\* match escape_time(..) { Some(count) => 255 - count as u8, None => 0 }:
\* `count as u8` keeps the low eight bits of count.
pixel_value(et) == IF et = None THEN 0 ELSE 255 - (et[1] % 256)

\* The byte render computes for pixel (c, r).
pixel_byte(bnds, r, c, ul, lr) ==
    pixel_value(escape_time(pixel_to_point(bnds, <<c, r>>, ul, lr), Limit))

\* The loops of render run to their end from (r, c) on the buffer buf.
RECURSIVE render_from(_, _, _, _, _, _)
render_from(buf, bnds, ul, lr, r, c) ==
    IF ~in_range(r, bnds[2]) THEN buf
    ELSE IF ~in_range(c, bnds[1]) THEN render_from(buf, bnds, ul, lr, r + 1, 0)
    ELSE render_from(
             [buf EXCEPT ![buffer_index(bnds, r, c) + 1] = pixel_byte(bnds, r, c, ul, lr)],
             bnds, ul, lr, r, c + 1)

\* The assertion at the top of render.
RenderEnter ==
    /\ pc = "entry"
    /\ pc' = IF length_ok(pixels, bounds) THEN "rows" ELSE "assert_failed"
    /\ row' = 0
    /\ UNCHANGED <<bounds, upper_left, lower_right, pixels, column, entry,
                   writes, mapped>>

\* `for row in 0..bounds.1`: the next row, or the end of render.
RenderRow ==
    /\ pc = "rows"
    /\ pc' = IF in_range(row, bounds[2]) THEN "columns" ELSE "returned"
    /\ column' = 0
    /\ UNCHANGED <<bounds, upper_left, lower_right, pixels, row, entry,
                   writes, mapped>>

\* One pass of the body of `for column in 0..bounds.0`.
RenderPixel ==
    /\ pc = "columns"
    /\ in_range(column, bounds[1])
    /\ LET index == buffer_index(bounds, row, column)
           value == pixel_byte(bounds, row, column, upper_left, lower_right)
       IN  /\ mapped' = Append(mapped, [bounds |-> bounds, pixel |-> <<column, row>>])
           /\ IF index < Len(pixels)
              THEN /\ pixels' = [pixels EXCEPT ![index + 1] = value]
                   /\ writes' = Append(writes, [row |-> row, column |-> column,
                                                index |-> index, value |-> value,
                                                by |-> 0])
                   /\ column' = column + 1
                   /\ pc' = pc
              ELSE /\ pc' = "index_panic"
                   /\ UNCHANGED <<pixels, writes, column>>
    /\ UNCHANGED <<bounds, upper_left, lower_right, row, entry>>

\* The end of the inner loop.
RenderRowEnd ==
    /\ pc = "columns"
    /\ ~in_range(column, bounds[1])
    /\ row' = row + 1
    /\ pc' = "rows"
    /\ UNCHANGED <<bounds, upper_left, lower_right, pixels, column, entry,
                   writes, mapped>>

-----------------------------------------------------------------------------
(* A render whose rows are shared out among workers (spec.md, section 5):   *)
(* each worker runs render's loop body over the rows it owns, in render's  *)
(* order, and the workers interleave freely.                               *)

Workers == {1, 2}

WorkerPixel(w) ==
    /\ pc = "workers"
    /\ in_range(cursor[w][1], bounds[2])
    /\ owner[cursor[w][1] + 1] = w
    /\ in_range(cursor[w][2], bounds[1])
    /\ LET r     == cursor[w][1]
           c     == cursor[w][2]
           index == buffer_index(bounds, r, c)
       IN  IF index < Len(pixels)
           THEN /\ pixels' = [pixels EXCEPT ![index + 1] =
                                 pixel_byte(bounds, r, c, upper_left, lower_right)]
                /\ writes' = [writes EXCEPT ![index + 1] = @ + 1]
                /\ cursor' = [cursor EXCEPT ![w] = <<r, c + 1>>]
                /\ pc' = pc
           ELSE /\ pc' = "index_panic"
                /\ UNCHANGED <<pixels, writes, cursor>>
    /\ UNCHANGED <<bounds, upper_left, lower_right, row, column, entry, mapped,
                   owner>>

WorkerNextRow(w) ==
    /\ pc = "workers"
    /\ in_range(cursor[w][1], bounds[2])
    /\ owner[cursor[w][1] + 1] # w \/ ~in_range(cursor[w][2], bounds[1])
    /\ cursor' = [cursor EXCEPT ![w] = <<cursor[w][1] + 1, 0>>]
    /\ UNCHANGED <<renderVars, owner>>

WorkersJoin ==
    /\ pc = "workers"
    /\ \A w \in Workers : ~in_range(cursor[w][1], bounds[2])
    /\ pc' = "returned"
    /\ UNCHANGED <<bounds, upper_left, lower_right, pixels, row, column, entry,
                   writes, mapped, owner, cursor>>

-----------------------------------------------------------------------------
(* The bounds of the model and the inputs drawn within them                *)

MaxDim    == 2    \* render: width and height range over 0..MaxDim
MaxCorner == 2    \* render: corner coordinates of magnitude at most MaxCorner
MaxCoord  == 5    \* escape_time: coordinates of c range over k/2, |k| <= MaxCoord
MaxLimit  == 4    \* escape_time: limit ranges over 0..MaxLimit
MaxLen    == 4    \* parse_pair: strings of at most MaxLen characters
MapDim    == 2    \* pixel_to_point: dimensions and pixel coordinates in 0..MapDim
MapCorner == 1    \* pixel_to_point: corner coordinates in -MapCorner..MapCorner
ParDim    == 2    \* shared-out render: width and height range over 1..ParDim
ParCorner == 1    \* shared-out render: corner coordinates of magnitude at most ParCorner

Origin == Complex(AsF64(0), AsF64(0))

IntPoints(m) == {Complex(AsF64(a), AsF64(b)) : a \in -m..m, b \in -m..m}

\* The corners of render's rectangle: an upper-left corner with re <= 0 <= im and
\* a lower-right corner with im <= 0 <= re (the rectangle may have no area).
UpperLefts(m)  == {Complex(AsF64(a), AsF64(b)) : a \in -m..0, b \in 0..m}
LowerRights(m) == {Complex(AsF64(a), AsF64(b)) : a \in 0..m, b \in -m..0}

\* The scenes on which the model's arithmetic is the program's: every pixel maps
\* to a point with integer coordinates (its orbit stays in small integers) or to
\* a point outside the disk of radius 2 (it escapes at once).
Exact(bnds, ul, lr) ==
    \A c \in 0..(bnds[1] - 1), r \in 0..(bnds[2] - 1) :
        LET p == pixel_to_point(bnds, <<c, r>>, ul, lr)
        IN  \/ p.re[2] = 1 /\ p.im[2] = 1
            \/ FGt(norm_sqr(p), AsF64(4))

\* Bytes a caller's buffer may hold: main passes zeros.
Fills == {0, 7}

PureIdle   == call = [fn |-> "none"] /\ ret = <<>>
RenderIdle == /\ pc = "idle" /\ bounds = <<0, 0>>
              /\ upper_left = Origin /\ lower_right = Origin
              /\ pixels = <<>> /\ row = 0 /\ column = 0
              /\ entry = <<>> /\ writes = <<>> /\ mapped = <<>>
ParIdle    == owner = <<>> /\ cursor = <<>>

\* render, called on any buffer.
Init ==
    /\ PureIdle /\ ParIdle
    /\ pc = "entry"
    /\ bounds \in (0..MaxDim) \X (0..MaxDim)
    /\ upper_left \in UpperLefts(MaxCorner)
    /\ lower_right \in LowerRights(MaxCorner)
    /\ Exact(bounds, upper_left, lower_right)
    /\ \E len \in 0..(MaxDim * MaxDim), fill \in Fills :
           pixels = [k \in 1..len |-> fill]
    /\ entry = pixels
    /\ row = 0 /\ column = 0
    /\ writes = <<>> /\ mapped = <<>>

Next ==
    \/ (RenderEnter  /\ UNCHANGED <<pureVars, parVars>>)
    \/ (RenderRow    /\ UNCHANGED <<pureVars, parVars>>)
    \/ (RenderPixel  /\ UNCHANGED <<pureVars, parVars>>)
    \/ (RenderRowEnd /\ UNCHANGED <<pureVars, parVars>>)

Spec == Init /\ [][Next]_vars

\* render with its rows shared out among the workers.
InitPar ==
    /\ PureIdle
    /\ pc = "workers"
    /\ bounds \in (1..ParDim) \X (1..ParDim)
    /\ upper_left \in UpperLefts(ParCorner)
    /\ lower_right \in LowerRights(ParCorner)
    /\ upper_left.re[1] < lower_right.re[1]
    /\ upper_left.im[1] > lower_right.im[1]
    /\ Exact(bounds, upper_left, lower_right)
    /\ \E fill \in Fills : pixels = [k \in 1..(bounds[1] * bounds[2]) |-> fill]
    /\ entry = pixels
    /\ row = 0 /\ column = 0
    /\ writes = [k \in 1..Len(pixels) |-> 0]
    /\ mapped = <<>>
    /\ owner \in [1..bounds[2] -> Workers]
    /\ cursor = [w \in Workers |-> <<0, 0>>]

NextPar ==
    \/ \E w \in Workers : WorkerPixel(w) /\ UNCHANGED pureVars
    \/ \E w \in Workers : WorkerNextRow(w) /\ UNCHANGED pureVars
    \/ (WorkersJoin /\ UNCHANGED pureVars)

SpecPar == InitPar /\ [][NextPar]_vars

\* escape_time
EscapePoints ==
    {Complex(Rat(a, 2), Rat(b, 2)) : a \in -MaxCoord..MaxCoord, b \in -MaxCoord..MaxCoord}
        \cup {Complex(AsF64(5), AsF64(0))}

CallEscapeTime ==
    /\ call.fn = "escape_time"
    /\ ret = <<>>
    /\ ret' = <<escape_time(call.c, call.limit)>>
    /\ UNCHANGED <<call, renderVars, parVars>>

InitEscape ==
    /\ RenderIdle /\ ParIdle
    /\ call \in [fn : {"escape_time"}, c : EscapePoints, limit : 0..MaxLimit]
    /\ ret = <<>>

NextEscape == CallEscapeTime

SpecEscape == InitEscape /\ [][NextEscape]_vars

\* pixel_to_point
Scenario1 == [fn |-> "pixel_to_point", bounds |-> <<100, 200>>, pixel |-> <<25, 175>>,
              upper_left  |-> Complex(AsF64(-1), AsF64(1)),
              lower_right |-> Complex(AsF64(1), AsF64(-1))]

CallPixelToPoint ==
    /\ call.fn = "pixel_to_point"
    /\ ret = <<>>
    /\ ret' = <<pixel_to_point(call.bounds, call.pixel, call.upper_left, call.lower_right)>>
    /\ UNCHANGED <<call, renderVars, parVars>>

InitMap ==
    /\ RenderIdle /\ ParIdle
    /\ call \in [fn : {"pixel_to_point"},
                 bounds : (0..MapDim) \X (0..MapDim),
                 pixel : (0..MapDim) \X (0..MapDim),
                 upper_left : IntPoints(MapCorner),
                 lower_right : IntPoints(MapCorner)] \cup {Scenario1}
    /\ ret = <<>>

NextMap == CallPixelToPoint

SpecMap == InitMap /\ [][NextMap]_vars

\* parse_pair and parse_complex
Alphabet   == {"1", "2", "-", ".", ","}
Separators == {",", "-", "x"}
Types      == {"usize", "i32", "f64"}

\* The strings of the repository's tests.
TestStrings ==
    { <<>>,
      <<"1", ",">>,
      <<"0", ".", "1", ",", "0", ".", "2">>,
      <<"5", "0", "0", "x">>,
      <<"5", "0", "0", "x", "3", "0", "0">>,
      <<"0", ".", "1", ",", "0", ".", "3">>,
      <<",", "0", ".", "3">> }

Strings == UNION {[1..n -> Alphabet] : n \in 0..MaxLen} \cup TestStrings

CallParsePair ==
    /\ call.fn = "parse_pair"
    /\ ret = <<>>
    /\ ret' = <<parse_pair(call.T, call.s, call.separator)>>
    /\ UNCHANGED <<call, renderVars, parVars>>

CallParseComplex ==
    /\ call.fn = "parse_complex"
    /\ ret = <<>>
    /\ ret' = <<parse_complex(call.s)>>
    /\ UNCHANGED <<call, renderVars, parVars>>

InitParse ==
    /\ RenderIdle /\ ParIdle
    /\ \/ call \in [fn : {"parse_pair"}, T : Types, s : Strings, separator : Separators]
       \/ call \in [fn : {"parse_complex"}, s : Strings]
    /\ ret = <<>>

NextParse == CallParsePair \/ CallParseComplex

SpecParse == InitParse /\ [][NextParse]_vars

-----------------------------------------------------------------------------
(* The claims                                                              *)

W == bounds[1]
H == bounds[2]

\* C1: once render has returned on a buffer of width*height bytes, the byte at
\* index row*width+column is 0 exactly when escape_time of the pixel's point,
\* with a budget of 255, reported no escape, and when it reported an escape at
\* iteration i the byte is 255 - i, with i below 256 (nothing truncated) and the
\* byte within 0..255 (nothing underflowed).
C1_BytesAreEscapeTimes ==
    pc = "returned" =>
        \A c \in 0..(W - 1), r \in 0..(H - 1) :
            LET et   == escape_time(pixel_to_point(bounds, <<c, r>>, upper_left, lower_right), 255)
                byte == pixels[r * W + c + 1]
            IN  /\ byte \in 0..255
                /\ byte = 0 <=> et = None
                /\ et # None => et[1] < 256 /\ byte = 255 - et[1]

C1_Witness ==
    /\ pc = "returned"
    /\ W = 2 /\ H = 2
    /\ entry = <<7, 7, 7, 7>>
    /\ \E k \in 1..4 : pixels[k] = 0
    /\ \E k \in 1..4 : pixels[k] = 254
    /\ \E k \in 1..4 : pixels[k] = 252

\* C2: over one call with a buffer of width*height bytes, the k-th write (from
\* 0) is to index k, for the pixel (k mod width, k div width), so rows are
\* visited in increasing order and columns in increasing order within a row; no
\* access falls outside the buffer; and when render returns every index has been
\* written exactly once.
C2_EveryIndexOnceInOrder ==
    /\ Len(entry) = W * H => pc # "index_panic"
    /\ \A k \in 1..Len(writes) :
           /\ writes[k].index = k - 1
           /\ writes[k].index = writes[k].row * W + writes[k].column
           /\ writes[k].column \in 0..(W - 1)
           /\ writes[k].row \in 0..(H - 1)
           /\ writes[k].index < Len(pixels)
    /\ \A k \in 1..(Len(writes) - 1) :
           \/ /\ writes[k + 1].row = writes[k].row
              /\ writes[k + 1].column = writes[k].column + 1
           \/ /\ writes[k + 1].row = writes[k].row + 1
              /\ writes[k + 1].column = 0
    /\ pc = "returned" => Len(writes) = W * H

C2_Witness ==
    /\ pc = "returned"
    /\ W = 2 /\ H = 2
    /\ Len(writes) = 4
    /\ writes[3].row = 1 /\ writes[3].column = 0 /\ writes[3].index = 2

\* C3: a buffer whose length is not width*height makes render's assertion fail
\* before anything is computed or written (the buffer is as it was received),
\* and a buffer of width*height bytes never makes it fail.
C3_LengthAsserted ==
    /\ Len(entry) # W * H =>
           /\ pc \in {"entry", "assert_failed"}
           /\ pixels = entry
           /\ writes = <<>>
           /\ mapped = <<>>
    /\ Len(entry) = W * H => pc # "assert_failed"

C3_Witness ==
    /\ pc = "assert_failed"
    /\ W = 1 /\ H = 2
    /\ entry = <<7, 7, 7>>
    /\ pixels = entry

\* z_k of the orbit of c: z_0 = (0,0), z_(k+1) = z_k^2 + c.
RECURSIVE Orbit(_, _)
Orbit(c, k) ==
    IF k = 0 THEN Origin
    ELSE LET z == Orbit(c, k - 1) IN CAdd(CMul(z, z), c)

Escaped(c, k) == FGt(norm_sqr(Orbit(c, k)), AsF64(4))

\* C4: escape_time(c, limit) returns Some(i) exactly when i is the least index
\* below limit at which the squared norm of z_i exceeds 4, and None exactly when
\* there is no such index (as for limit = 0).
C4_LeastEscapingIndex ==
    ret # <<>> =>
        LET out == ret[1]
        IN  /\ out = None <=> \A i \in 0..(call.limit - 1) : ~Escaped(call.c, i)
            /\ out # None =>
                   /\ out[1] \in 0..(call.limit - 1)
                   /\ Escaped(call.c, out[1])
                   /\ \A j \in 0..(out[1] - 1) : ~Escaped(call.c, j)

C4_Witness ==
    /\ ret = <<Some(3)>>
    /\ call.limit = 4
    /\ call.c = Complex(AsF64(-1), AsF64(1))

Five == Complex(AsF64(5), AsF64(0))

\* C5 as stated: for c = (5,0) and any limit of at least 1, escape_time reports
\* an escape at iteration 0.
C5_FiveEscapesAtZero ==
    (ret # <<>> /\ call.c = Five /\ call.limit >= 1) => ret[1] = Some(0)

\* C5, amended: for c = (5,0), escape_time reports an escape at iteration 1 for
\* every limit of at least 2, and no escape for a limit of 1.
C5_FiveEscapesAtOne ==
    (ret # <<>> /\ call.c = Five) =>
        /\ call.limit >= 2 => ret[1] = Some(1)
        /\ call.limit = 1 => ret[1] = None

C5_Witness ==
    /\ call.c = Five
    /\ call.limit = 2
    /\ ret = <<Some(1)>>

\* C6 as stated: for every limit of at least 1 and every c with |c| > 2,
\* escape_time reports an escape at some iteration below the limit.
C6_OutsideEscapesWithinAnyLimit ==
    (ret # <<>> /\ call.limit >= 1 /\ FGt(norm_sqr(call.c), AsF64(4))) =>
        ret[1] # None /\ ret[1][1] < call.limit

\* C6, amended: for every limit of at least 2 and every c whose squared norm
\* exceeds 4, escape_time reports an escape at iteration 1, which is below the
\* limit; for a limit of 1 it reports no escape.
C6_OutsideEscapesAtOne ==
    (ret # <<>> /\ FGt(norm_sqr(call.c), AsF64(4))) =>
        /\ call.limit >= 2 => ret[1] = Some(1) /\ 1 < call.limit
        /\ call.limit = 1 => ret[1] = None

C6_Witness ==
    /\ call.c = Complex(Rat(-3, 2), Rat(3, 2))
    /\ call.limit = 3
    /\ ret = <<Some(1)>>

\* C7: for positive dimensions (W, H), the point returned for pixel (column,
\* row) has real part upper_left.re + column*(lower_right.re - upper_left.re)/W
\* and imaginary part upper_left.im - row*(upper_left.im - lower_right.im)/H
\* (stated here with the division multiplied out); pixel (0,0) maps to
\* upper_left; over a rectangle whose top is above its bottom the imaginary part
\* is smaller for the next row; and bounds (100,200), pixel (25,175), corners
\* (-1,1) and (1,-1) give (-1/2, -3/4).
C7_MapperFormula ==
    (ret # <<>> /\ call.bounds[1] > 0 /\ call.bounds[2] > 0) =>
        LET p  == ret[1]
            ul == call.upper_left
            lr == call.lower_right
            bw == call.bounds[1]
            bh == call.bounds[2]
            below == pixel_to_point(call.bounds, <<call.pixel[1], call.pixel[2] + 1>>, ul, lr)
        IN  /\ p.re[2] > 0 /\ p.im[2] > 0
            /\ p.re[1] * bw = p.re[2] * (ul.re[1] * bw + call.pixel[1] * (lr.re[1] - ul.re[1]))
            /\ p.im[1] * bh = p.im[2] * (ul.im[1] * bh - call.pixel[2] * (ul.im[1] - lr.im[1]))
            /\ call.pixel = <<0, 0>> => p = ul
            /\ ul.im[1] > lr.im[1] => FGt(p.im, below.im)
            /\ call = Scenario1 => p = Complex(Rat(-1, 2), Rat(-3, 4))

C7_Witness ==
    /\ call = Scenario1
    /\ ret = <<Complex(Rat(-1, 2), Rat(-3, 4))>>

\* What parse_pair is to return for s: the split is at the first separator.
PairOf(T, s, separator) ==
    LET firsts == {k \in 1..Len(s) : s[k] = separator /\ \A j \in 1..(k - 1) : s[j] # separator}
    IN  IF firsts = {} THEN None
        ELSE LET k == CHOOSE k \in firsts : TRUE
                 l == from_str(T, SubSeq(s, 1, k - 1))
                 r == from_str(T, SubSeq(s, k + 1, Len(s)))
             IN  IF l = None \/ r = None THEN None ELSE Some(<<l[1], r[1]>>)

\* C8: parse_pair yields Some((l, r)) exactly when the separator occurs in s and
\* the text before its first occurrence parses as l and all the text after it as
\* r, and None otherwise; parse_complex yields Some of the point (re, im)
\* exactly when parse_pair with ',' yields Some((re, im)), and None otherwise.
\* The strings of the repository's tests give the values the tests expect.
C8_ParsesAtFirstSeparator ==
    ret # <<>> =>
        IF call.fn = "parse_pair"
        THEN /\ ret[1] = PairOf(call.T, call.s, call.separator)
             /\ call.s \in {<<>>, <<"1", ",">>, <<"5", "0", "0", "x">>} => ret[1] = None
             /\ (call.s = <<"5", "0", "0", "x", "3", "0", "0">>
                   /\ call.T = "i32" /\ call.separator = "x") => ret[1] = Some(<<500, 300>>)
             /\ (call.s = <<"0", ".", "1", ",", "0", ".", "2">>
                   /\ call.T = "f64" /\ call.separator = ",")
                   => ret[1] = Some(<<Rat(1, 10), Rat(2, 10)>>)
        ELSE LET p == parse_pair("f64", call.s, ",")
             IN  /\ p = None => ret[1] = None
                 /\ p # None => ret[1] = Some([re |-> p[1][1], im |-> p[1][2]])
                 /\ (ret[1] = None) <=> (PairOf("f64", call.s, ",") = None)
                 /\ call.s = <<",", "0", ".", "3">> => ret[1] = None
                 /\ call.s = <<"0", ".", "1", ",", "0", ".", "3">>
                       => ret[1] = Some(Complex(Rat(1, 10), Rat(3, 10)))

C8_Witness ==
    /\ call.fn = "parse_pair"
    /\ call.s = <<"1", "-", "-", "2">>
    /\ call.separator = "-"
    /\ call.T = "i32"
    /\ ret = <<Some(<<1, -2>>)>>

\* C9: with the rows shared out among workers, under every interleaving no
\* index is written twice, no write falls outside the buffer, and once all
\* workers are done every index has been written once and the buffer is the one
\* the sequential row-major render produces from the same input.
C9_WorkersAgreeWithRender ==
    /\ pc # "index_panic"
    /\ \A k \in 1..Len(writes) : writes[k] <= 1
    /\ pc = "returned" =>
           /\ \A k \in 1..Len(writes) : writes[k] = 1
           /\ pixels = render_from(entry, bounds, upper_left, lower_right, 0, 0)

C9_Witness ==
    /\ pc = "returned"
    /\ W = 2 /\ H = 2
    /\ owner = <<2, 1>>
    /\ entry = <<7, 7, 7, 7>>
    /\ \E k \in 1..4 : pixels[k] = 0
    /\ \E k \in 1..4 : pixels[k] = 252

\* C10: render never calls pixel_to_point with a zero dimension or with a pixel
\* outside the grid; and on a grid with a zero dimension and an empty buffer it
\* passes its assertion, maps nothing, writes nothing, and runs on until it
\* returns.
C10_ZeroDimensionNeverMapped ==
    /\ \A k \in 1..Len(mapped) :
           /\ mapped[k].bounds[1] # 0 /\ mapped[k].bounds[2] # 0
           /\ mapped[k].pixel[1] < mapped[k].bounds[1]
           /\ mapped[k].pixel[2] < mapped[k].bounds[2]
    /\ ((W = 0 \/ H = 0) /\ entry = <<>>) =>
           /\ pc \in {"entry", "rows", "columns", "returned"}
           /\ mapped = <<>> /\ writes = <<>> /\ pixels = <<>>
           /\ pc # "returned" => ENABLED Next

C10_Witness ==
    /\ pc = "returned"
    /\ W = 0 /\ H = 2
    /\ entry = <<>>
    /\ row = 2
    /\ mapped = <<>>

=============================================================================
